---- MODULE Spec2Model ----
(***************************************************************************)
(* Model of src/json_uploader.py: a Streamlit page that creates a          *)
(* warehouse table, appends one row per uploaded JSON file and optionally  *)
(* shows the table.  The script is executed from top to bottom on every    *)
(* UI event; the warehouse tables are the only state that survives a run.  *)
(***************************************************************************)
EXTENDS Integers, Sequences, FiniteSets, TLC

(***************************************************************************)
(* Bounds of the model.                                                    *)
(***************************************************************************)
MaxRuns == 4        \* script runs in one behaviour
MaxBatch == 3       \* files selected in the uploader at one time
MaxFaults == 1      \* warehouse operations that fail in one behaviour
PreRows == 6        \* rows of a table that exists before the first run

(***************************************************************************)
(* Program constants.                                                      *)
(***************************************************************************)
PreviewLimit == 5   \* range(min(5, df.count()))

DefaultTable == "my_json_table"
TableNames == {DefaultTable, "t2"}

(***************************************************************************)
(* JSON values and text.  A text is a sequence of one-byte characters.     *)
(* The grammar is the subset of JSON made of integers, null and arrays,    *)
(* with blanks between tokens.                                             *)
(***************************************************************************)
Digits == <<"0", "1", "2", "3", "4", "5", "6", "7", "8", "9">>

JNull == [t |-> "null"]
JNum(n) == [t |-> "num", n |-> n]
JArr(items) == [t |-> "arr", items |-> items]

IsDigit(c) == \E d \in 1..10 : Digits[d] = c
DigitVal(c) == (CHOOSE d \in 1..10 : Digits[d] = c) - 1

RECURSIVE SkipWs(_, _)
SkipWs(s, p) == IF p <= Len(s) /\ s[p] = " " THEN SkipWs(s, p + 1) ELSE p

RECURSIVE ScanInt(_, _, _)
\* the digits from position p on, as [val, pos]
ScanInt(s, p, acc) ==
    IF p <= Len(s) /\ IsDigit(s[p])
    THEN ScanInt(s, p + 1, acc * 10 + DigitVal(s[p]))
    ELSE [val |-> acc, pos |-> p]

HasAt(s, p, w) == p + Len(w) - 1 <= Len(s) /\ SubSeq(s, p, p + Len(w) - 1) = w

Fail == [ok |-> FALSE, val |-> JNull, pos |-> 0]
Got(v, p) == [ok |-> TRUE, val |-> v, pos |-> p]

RECURSIVE ParseValue(_, _)
RECURSIVE ParseItems(_, _, _)
\* one value starting at p (after blanks); pos is the position after it
ParseValue(s, p0) ==
    LET p == SkipWs(s, p0) IN
    IF p > Len(s) THEN Fail
    ELSE IF IsDigit(s[p])
    THEN IF s[p] = "0" /\ p + 1 <= Len(s) /\ IsDigit(s[p + 1])
         THEN Fail                      \* no leading zero
         ELSE LET r == ScanInt(s, p, 0) IN Got(JNum(r.val), r.pos)
    ELSE IF HasAt(s, p, <<"n", "u", "l", "l">>) THEN Got(JNull, p + 4)
    ELSE IF s[p] = "["
    THEN LET q == SkipWs(s, p + 1) IN
         IF q <= Len(s) /\ s[q] = "]" THEN Got(JArr(<<>>), q + 1)
         ELSE ParseItems(s, q, <<>>)
    ELSE Fail

\* the items of an array whose "[" was read, up to and including its "]"
ParseItems(s, p, acc) ==
    LET r == ParseValue(s, p) IN
    IF ~r.ok THEN Fail
    ELSE LET q == SkipWs(s, r.pos) IN
         IF q > Len(s) THEN Fail
         ELSE IF s[q] = "]" THEN Got(JArr(Append(acc, r.val)), q + 1)
         ELSE IF s[q] = "," THEN ParseItems(s, q + 1, Append(acc, r.val))
         ELSE Fail

\* json.load / json.loads: the value of a whole text, or a JSONDecodeError
json_loads(s) ==
    LET r == ParseValue(s, 1) IN
    IF r.ok /\ SkipWs(s, r.pos) = Len(s) + 1
    THEN [ok |-> TRUE, val |-> r.val]
    ELSE [ok |-> FALSE, val |-> JNull]

RECURSIVE IntText(_)
IntText(n) == IF n < 10 THEN <<Digits[n + 1]>>
              ELSE IntText(n \div 10) \o <<Digits[(n % 10) + 1]>>

RECURSIVE VariantText(_)
RECURSIVE ItemsText(_, _)
\* the text the warehouse returns for a stored semi-structured value
VariantText(v) ==
    IF v.t = "num" THEN IntText(v.n)
    ELSE IF v.t = "null" THEN <<"n", "u", "l", "l">>
    ELSE <<"[">> \o ItemsText(v.items, 1) \o <<"]">>

ItemsText(items, i) ==
    IF i > Len(items) THEN <<>>
    ELSE (IF i > 1 THEN <<",">> ELSE <<>>) \o VariantText(items[i])
         \o ItemsText(items, i + 1)

(***************************************************************************)
(* The files a user can select: a name and the raw bytes.                  *)
(***************************************************************************)
Pool ==
    { [name |-> "a.json",   raw |-> <<" ", "[", "1", ",", " ", "1", "2", "]">>],
      [name |-> "n.json",   raw |-> <<"n", "u", "l", "l">>],
      [name |-> "bad.json", raw |-> <<"{", "x", ":", "1", "}">>],
      [name |-> "cut.json", raw |-> <<"[", "1">>] }

(***************************************************************************)
(* The warehouse: tables with reported column names and rows in storage    *)
(* order.                                                                  *)
(***************************************************************************)
NoTable == [exists |-> FALSE, columns |-> {}, rows |-> <<>>]

\* the column names of the DDL statement and of the DataFrame schema
DDLColumns == {"file_name", "file_size_bytes", "json_content"}

Fold(c) == CASE c = "file_name" -> "FILE_NAME"
             [] c = "file_size_bytes" -> "FILE_SIZE_BYTES"
             [] c = "json_content" -> "JSON_CONTENT"
             [] OTHER -> c

\* the names df.columns reports for the table's columns.  Identifier
\* resolution is the warehouse's, not the script's: it folds the unquoted
\* names of the DDL to upper case ("folded"); "written" is a warehouse that
\* reports them as the statement spells them.  Both are explored.
ReportedColumns(ident) ==
    IF ident = "folded" THEN {Fold(c) : c \in DDLColumns} ELSE DDLColumns

Msg(k, file, n, v) == [k |-> k, file |-> file, n |-> n, v |-> v]
NoCell == [null |-> TRUE, text |-> <<>>]

\* Variant of SqlCreateIfNotExists: CREATE OR REPLACE TABLE
SqlCreateOrReplace(tbls, name, ident) ==
    [tbls EXCEPT ![name] =
        [exists |-> TRUE, columns |-> ReportedColumns(ident), rows |-> <<>>]]

\* CREATE TABLE IF NOT EXISTS name (file_name VARCHAR, file_size_bytes
\* INTEGER, json_content VARIANT)
SqlCreateIfNotExists(tbls, name, ident) ==
    IF tbls[name].exists THEN tbls
    ELSE [tbls EXCEPT ![name] =
             [exists |-> TRUE, columns |-> ReportedColumns(ident), rows |-> <<>>]]

\* Variant of SaveAsTableAppend: mode("overwrite")
SaveAsTableOverwrite(tbls, name, row, ident) ==
    [tbls EXCEPT ![name] =
        [exists |-> TRUE, columns |-> ReportedColumns(ident), rows |-> <<row>>]]

\* df.write.mode("append").save_as_table(name): appends, creating the table
\* from the DataFrame's schema when there is none
SaveAsTableAppend(tbls, name, row, ident) ==
    LET t == IF tbls[name].exists THEN tbls[name]
             ELSE [exists |-> TRUE, columns |-> ReportedColumns(ident),
                   rows |-> <<>>]
    IN  [tbls EXCEPT ![name] = [t EXCEPT !.rows = Append(t.rows, row)]]

\* create_table_if_not_exists: every exception is caught and shown
create_table_if_not_exists(tbls, name, ident, fault) ==
    IF fault
    THEN [tables |-> tbls, escaped |-> FALSE,
          msgs |-> <<Msg("create_error", "", 0, NoCell)>>]
    ELSE [tables |-> SqlCreateIfNotExists(tbls, name, ident), escaped |-> FALSE,
          msgs |-> <<Msg("table_created", "", 0, NoCell)>>]

\* Variant of insert_json_data: no try/except around the write
insert_json_data_uncaught(tbls, name, file_name, file_size_bytes, json_content, ident, fault) ==
    IF fault
    THEN [tables |-> tbls, escaped |-> TRUE, msgs |-> <<>>]
    ELSE [tables |-> SaveAsTableAppend(tbls, name,
                        [file_name |-> file_name,
                         file_size_bytes |-> file_size_bytes,
                         json_content |-> json_content], ident),
          escaped |-> FALSE,
          msgs |-> <<Msg("inserted", file_name, 0, NoCell)>>]

\* insert_json_data: one DataFrame row appended; every exception is caught
insert_json_data(tbls, name, file_name, file_size_bytes, json_content, ident, fault) ==
    IF fault
    THEN [tables |-> tbls, escaped |-> FALSE,
          msgs |-> <<Msg("insert_error", "", 0, NoCell)>>]
    ELSE [tables |-> SaveAsTableAppend(tbls, name,
                        [file_name |-> file_name,
                         file_size_bytes |-> file_size_bytes,
                         json_content |-> json_content], ident),
          escaped |-> FALSE,
          msgs |-> <<Msg("inserted", file_name, 0, NoCell)>>]

\* Variant of FileSize: the length of the parsed value written back as text
FileSize_of_value(f) == Len(VariantText(json_loads(f.raw).val))

\* len(uploaded_file.getvalue())
FileSize(f) == Len(f.raw)

\* Variant of LoopBody: the except branch lacks its continue
LoopBody_no_continue(tbls, name, f, ident, fault) ==
    LET parsed == json_loads(f.raw)
        r == insert_json_data(tbls, name, f.name, Len(f.raw), parsed.val, ident, fault)
    IN  IF ~parsed.ok
        THEN [r EXCEPT !.msgs = <<Msg("invalid_json", f.name, 0, NoCell)>> \o @]
        ELSE r

\* one iteration of the loop over uploaded_files
LoopBody(tbls, name, f, ident, fault) ==
    LET file_size_bytes == FileSize(f)
        parsed == json_loads(f.raw)
    IN  IF ~parsed.ok
        THEN [tables |-> tbls, escaped |-> FALSE,
              msgs |-> <<Msg("invalid_json", f.name, 0, NoCell)>>]   \* continue
        ELSE insert_json_data(tbls, name, f.name, file_size_bytes, parsed.val,
                              ident, fault)

\* whether the iteration for f issues a warehouse operation
CallsInsert(f) == json_loads(f.raw).ok

(***************************************************************************)
(* The viewer.                                                             *)
(***************************************************************************)
\* what collect() returns for a stored json_content: None for a NULL (a
\* Python None was written), the value's text otherwise
Cell(v) == IF v = JNull THEN NoCell ELSE [null |-> FALSE, text |-> VariantText(v)]

Min(a, b) == IF a < b THEN a ELSE b

\* the body of the preview loop for row i (1-based): json.loads of the cell;
\* a TypeError (None) or JSONDecodeError gives a diagnostic and the raw value
PreviewRow(rows, i) ==
    LET c == Cell(rows[i].json_content)
        r == IF c.null THEN [ok |-> FALSE, val |-> JNull] ELSE json_loads(c.text)
    IN  IF r.ok THEN <<Msg("json", "", i, r.val)>>
        ELSE <<Msg("row_error", "", i, NoCell), Msg("raw", "", i, c)>>

RECURSIVE PreviewLoop(_, _, _, _)
\* rows i..n of the preview; the collect() for row failRow raises
PreviewLoop(rows, i, n, failRow) ==
    IF i > n THEN [msgs |-> <<>>, raised |-> FALSE]
    ELSE IF i = failRow THEN [msgs |-> <<>>, raised |-> TRUE]
    ELSE LET rest == PreviewLoop(rows, i + 1, n, failRow)
         IN  [msgs |-> PreviewRow(rows, i) \o rest.msgs, raised |-> rest.raised]

\* the number of preview iterations: range(min(5, df.count()))
PreviewCount(n) == Min(PreviewLimit, n)

\* the warehouse operations the viewer issues on table t, in order:
\* 1 = to_pandas, 2 = count, 2 + i = collect for row i
ViewerOps(t) ==
    IF ~t.exists THEN 0
    ELSE IF "json_content" \in t.columns THEN 2 + PreviewCount(Len(t.rows))
    ELSE 1

\* the try block of the viewer; failAt = 0: no operation fails
Viewer(t, failAt) ==
    LET fetch_error == <<Msg("fetch_error", "", 0, NoCell)>>
        dataframe == <<Msg("dataframe", "", Len(t.rows), NoCell)>>
        caption == <<Msg("caption", "", 0, NoCell)>>
    IN  IF ~t.exists \/ failAt = 1 THEN fetch_error
        ELSE IF "json_content" \in t.columns
        THEN IF failAt = 2 THEN dataframe \o caption \o fetch_error
             ELSE LET p == PreviewLoop(t.rows, 1, PreviewCount(Len(t.rows)),
                                       failAt - 2)
                  IN  dataframe \o caption \o p.msgs
                      \o (IF p.raised THEN fetch_error ELSE <<>>)
        ELSE dataframe \o caption \o <<Msg("no_column", "", 0, NoCell)>>

\* Variant of ShowsData: the viewer outside the "if uploaded_files" block
ShowsData_unnested(files, cb) == cb

\* if uploaded_files: ... if st.checkbox(...):
ShowsData(files, cb) == files # <<>> /\ cb

(***************************************************************************)
(* State.                                                                  *)
(***************************************************************************)
VARIABLES
    tables,          \* the warehouse: table name -> table
    origin,          \* history: per table, the upload each row was written from
    identCase,       \* how the warehouse reports unquoted column names
    table_name,      \* widget: st.text_input
    uploaded_files,  \* widget: st.file_uploader, in selection order
    checkbox,        \* widget: st.checkbox
    nextUid,         \* history: identity of the next selected upload
    pc,              \* position of the running script in main
    session,         \* "none", "open" or "closed": the session of this run
    idx,             \* index of the next file of the loop
    ui,              \* the messages this run has rendered
    before,          \* history: rows of the target table when the loop began
    failed,          \* history: the operations that failed in this run
    runs,            \* number of script runs started
    faults           \* number of failed warehouse operations

vars == <<tables, origin, identCase, table_name, uploaded_files, checkbox,
          nextUid, pc, session, idx, ui, before, failed, runs, faults>>

ValidPool == <<CHOOSE f \in Pool : f.name = "a.json",
               CHOOSE f \in Pool : f.name = "n.json">>

\* the row the program writes for file f
RowOf(f) == LoopBody([n \in {DefaultTable} |-> NoTable], DefaultTable, f,
                     "written", FALSE).tables[DefaultTable].rows

RECURSIVE EarlierRows(_)
\* k rows written by earlier sessions of the program
EarlierRows(k) ==
    IF k = 0 THEN <<>>
    ELSE EarlierRows(k - 1) \o RowOf(ValidPool[(k % 2) + 1])

Init ==
    /\ identCase \in {"written", "folded"}
    /\ \E k \in {0, PreRows}, present \in BOOLEAN :
          /\ present \/ k = 0
          /\ tables = [n \in TableNames |->
                IF n = DefaultTable /\ present
                THEN [exists |-> TRUE, columns |-> ReportedColumns(identCase),
                      rows |-> EarlierRows(k)]
                ELSE NoTable]
          /\ origin = [n \in TableNames |->
                IF n = DefaultTable /\ present THEN [i \in 1..k |-> 0 - i]
                ELSE <<>>]
    /\ table_name = DefaultTable
    /\ uploaded_files = <<>>
    /\ checkbox = FALSE
    /\ nextUid = 1
    /\ pc = "start"
    /\ session = "none"
    /\ idx = 0
    /\ ui = <<>>
    /\ before = <<>>
    /\ failed = {}
    /\ runs = 1
    /\ faults = 0

\* whether a warehouse operation of this step fails
FaultChoices == IF faults < MaxFaults THEN BOOLEAN ELSE {FALSE}

Widgets == <<table_name, uploaded_files, checkbox, nextUid>>
Warehouse == <<tables, origin, identCase>>

(***************************************************************************)
(* main, step by step.                                                     *)
(***************************************************************************)
\* line 76: session = get_active_session()
GetSession ==
    /\ pc = "start"
    /\ \E fault \in FaultChoices :
          IF fault
          THEN /\ pc' = "crashed"
               /\ failed' = failed \cup {"session"}
               /\ faults' = faults + 1
               /\ UNCHANGED session
          ELSE /\ pc' = "logo"
               /\ session' = "open"
               /\ UNCHANGED <<failed, faults>>
    /\ UNCHANGED <<Warehouse, Widgets, idx, ui, before, runs>>

\* lines 79-86: the logo is read from the stage outside any try; the session
\* is not None here, so the return of line 86 is not taken
Logo ==
    /\ pc = "logo"
    /\ \E fault \in FaultChoices :
          IF fault
          THEN /\ pc' = "crashed"
               /\ failed' = failed \cup {"logo"}
               /\ faults' = faults + 1
          ELSE /\ pc' = "create"
               /\ UNCHANGED <<failed, faults>>
    /\ UNCHANGED <<Warehouse, Widgets, session, idx, ui, before, runs>>

\* lines 89-97: the table is created, then the uploader is read
CreateTable ==
    /\ pc = "create"
    /\ \E fault \in FaultChoices :
          LET r == create_table_if_not_exists(tables, table_name, identCase, fault)
          IN  /\ tables' = r.tables
              /\ ui' = ui \o r.msgs
              /\ failed' = IF fault THEN failed \cup {"create"} ELSE failed
              /\ faults' = IF fault THEN faults + 1 ELSE faults
              /\ pc' = IF r.escaped THEN "crashed"
                       ELSE IF uploaded_files # <<>> THEN "loop" ELSE "viewer"
              /\ before' = r.tables[table_name].rows
    /\ idx' = 1
    /\ UNCHANGED <<origin, identCase, Widgets, session, runs>>

\* lines 98-112: one iteration of the loop
LoopStep ==
    /\ pc = "loop"
    /\ idx <= Len(uploaded_files)
    /\ \E fault \in FaultChoices :
          LET f == uploaded_files[idx]
              r == LoopBody(tables, table_name, f, identCase, fault)
              grew == Len(r.tables[table_name].rows) > Len(tables[table_name].rows)
          IN  /\ fault => CallsInsert(f)
              /\ tables' = r.tables
              /\ origin' = IF grew
                           THEN [origin EXCEPT ![table_name] = Append(@, f.uid)]
                           ELSE origin
              /\ ui' = ui \o r.msgs
              /\ failed' = IF fault THEN failed \cup {"insert"} ELSE failed
              /\ faults' = IF fault THEN faults + 1 ELSE faults
              /\ pc' = IF r.escaped THEN "crashed"
                       ELSE IF idx = Len(uploaded_files) THEN "viewer" ELSE "loop"
    /\ idx' = idx + 1
    /\ UNCHANGED <<identCase, Widgets, session, before, runs>>

\* lines 97 and 115-137: with files selected, the checkbox and the viewer
ViewerStep ==
    /\ pc = "viewer"
    /\ IF ShowsData(uploaded_files, checkbox)
       THEN \E failAt \in 0..ViewerOps(tables[table_name]) :
               /\ failAt > 0 => TRUE \in FaultChoices
               /\ ui' = ui \o Viewer(tables[table_name], failAt)
               /\ failed' = IF failAt > 0 \/ ~tables[table_name].exists
                            THEN failed \cup {"read"} ELSE failed
               /\ faults' = IF failAt > 0 THEN faults + 1 ELSE faults
       ELSE UNCHANGED <<ui, failed, faults>>
    /\ pc' = "close"
    /\ UNCHANGED <<Warehouse, Widgets, session, idx, before, runs>>

\* lines 139-140: session.close()
Close ==
    /\ pc = "close"
    /\ session' = IF session = "open" THEN "closed" ELSE session
    /\ pc' = "done"
    /\ UNCHANGED <<Warehouse, Widgets, idx, ui, before, failed, runs, faults>>

(***************************************************************************)
(* UI events.  Each one re-executes the script.  A widget keeps its value  *)
(* only if the previous run rendered it: after a run that raised before    *)
(* line 89 every widget is back at its default.                            *)
(***************************************************************************)
RunEnded == pc \in {"done", "crashed"}
KeptName == IF pc = "done" THEN table_name ELSE DefaultTable
KeptFiles == IF pc = "done" THEN uploaded_files ELSE <<>>
KeptCheckbox == pc = "done" /\ uploaded_files # <<>> /\ checkbox

Restart ==
    /\ RunEnded
    /\ runs < MaxRuns
    /\ runs' = runs + 1
    /\ pc' = "start"
    /\ session' = "none"
    /\ idx' = 0
    /\ ui' = <<>>
    /\ before' = <<>>
    /\ failed' = {}
    /\ UNCHANGED <<Warehouse, faults>>

\* the page is reloaded or rerun with the widgets as they are
EventRerun ==
    /\ Restart
    /\ table_name' = KeptName
    /\ uploaded_files' = KeptFiles
    /\ checkbox' = KeptCheckbox
    /\ UNCHANGED nextUid

\* the table name is edited
EventEditName ==
    /\ Restart
    /\ pc = "done"
    /\ \E n \in TableNames \ {table_name} : table_name' = n
    /\ checkbox' = KeptCheckbox
    /\ UNCHANGED <<uploaded_files, nextUid>>

\* a file is added to the selection
EventSelectFile ==
    /\ Restart
    /\ pc = "done"
    /\ Len(uploaded_files) < MaxBatch
    /\ \E f \in Pool :
          uploaded_files' = Append(uploaded_files,
                                   [name |-> f.name, raw |-> f.raw, uid |-> nextUid])
    /\ nextUid' = nextUid + 1
    /\ checkbox' = KeptCheckbox
    /\ UNCHANGED table_name

\* a file is removed from the selection
EventRemoveFile ==
    /\ Restart
    /\ pc = "done"
    /\ \E i \in 1..Len(uploaded_files) :
          uploaded_files' = SubSeq(uploaded_files, 1, i - 1)
                            \o SubSeq(uploaded_files, i + 1, Len(uploaded_files))
    /\ checkbox' = KeptCheckbox
    /\ UNCHANGED <<table_name, nextUid>>

\* the checkbox, rendered by the previous run, is toggled
EventToggle ==
    /\ Restart
    /\ pc = "done"
    /\ uploaded_files # <<>>
    /\ checkbox' = ~checkbox
    /\ UNCHANGED <<table_name, uploaded_files, nextUid>>

Next ==
    \/ GetSession
    \/ Logo
    \/ CreateTable
    \/ LoopStep
    \/ ViewerStep
    \/ Close
    \/ EventRerun
    \/ EventEditName
    \/ EventSelectFile
    \/ EventRemoveFile
    \/ EventToggle

Spec == Init /\ [][Next]_vars

(***************************************************************************)
(* Vocabulary of the properties.                                           *)
(***************************************************************************)
Target == tables[table_name]

\* the messages of the ingestion loop, one per processed file
LoopMsgs == SelectSeq(ui, LAMBDA m : m.k \in {"invalid_json", "inserted", "insert_error"})
Processed == Len(LoopMsgs)

CountKind(kinds) == Cardinality({i \in 1..Len(ui) : ui[i].k \in kinds})
InsertedUpTo(lm, i) == Cardinality({j \in 1..i : lm[j].k = "inserted"})

\* the script is at or after the ingestion loop and has not raised
AfterCreate == pc \in {"loop", "viewer", "close", "done"}
LoopDone == pc \in {"viewer", "close", "done"}

\* what each file of the pool holds, worked out by hand
Malformed == {"bad.json", "cut.json"}
ExpectedValue(name) ==
    CASE name = "a.json" -> JArr(<<JNum(1), JNum(12)>>)
      [] name = "n.json" -> JNull
ExpectedSize(name) ==
    CASE name = "a.json" -> 8
      [] name = "n.json" -> 4

NumInvalid == Cardinality({i \in 1..Len(uploaded_files) :
                              uploaded_files[i].name \in Malformed})

\* the viewer's try block was entered in this run
ViewerRan == \E i \in 1..Len(ui) : ui[i].k \in {"dataframe", "fetch_error"}

RECURSIVE NamesOfInserted(_, _)
\* the names of the files 1..i whose insert succeeded, in selection order
NamesOfInserted(lm, i) ==
    IF i = 0 THEN <<>>
    ELSE NamesOfInserted(lm, i - 1)
         \o (IF lm[i].k = "inserted" THEN <<uploaded_files[i].name>> ELSE <<>>)

\* the file names of the rows the target table gained since the loop began
AddedNames == [j \in 1..(Len(Target.rows) - Len(before)) |->
                  Target.rows[Len(before) + j].file_name]

(***************************************************************************)
(* C1: every file that parses and whose insert succeeds adds exactly one   *)
(* row, holding the upload's name, the byte length of the raw upload and   *)
(* the parsed value.                                                       *)
(***************************************************************************)
C1_OneRowPerInsertedFile ==
    AfterCreate =>
      LET lm == LoopMsgs IN
      /\ Len(Target.rows) = Len(before) + InsertedUpTo(lm, Len(lm))
      /\ \A i \in 1..Len(lm) :
            lm[i].k = "inserted" =>
               LET f == uploaded_files[i]
                   row == Target.rows[Len(before) + InsertedUpTo(lm, i)]
               IN  /\ f.name \notin Malformed
                   /\ row.file_name = f.name
                   /\ row.file_size_bytes = ExpectedSize(f.name)
                   /\ row.json_content = ExpectedValue(f.name)

C1_Witness ==
    /\ pc = "viewer"
    /\ Processed = 1
    /\ LoopMsgs[1].k = "inserted"
    /\ uploaded_files[1].name = "a.json"
    /\ Target.rows[Len(Target.rows)] =
          [file_name |-> "a.json", file_size_bytes |-> 8,
           json_content |-> JArr(<<JNum(1), JNum(12)>>)]

C3_OneRowPerUpload ==
    \A t \in TableNames :
       \A i, j \in 1..Len(origin[t]) : i # j => origin[t][i] # origin[t][j]

C5_NoErrorFatal ==
    failed \cap {"logo", "create", "insert", "read"} # {} => pc # "crashed"

C7_CreateIsIdempotent ==
    [][(pc = "create" /\ Target.exists /\ faults' = faults) =>
          /\ tables' = tables
          /\ pc' # "crashed"
          /\ ui' = ui \o <<Msg("table_created", "", 0, NoCell)>>]_vars

C7_Witness ==
    /\ runs >= 2
    /\ pc \in {"loop", "viewer"}
    /\ idx = 1
    /\ ui = <<Msg("table_created", "", 0, NoCell)>>
    /\ Len(Target.rows) > 0
    /\ \A i \in 1..Len(origin[table_name]) : origin[table_name][i] > 0

(***************************************************************************)
(* C8: on a table of n rows the table view shows n rows and the preview    *)
(* renders exactly min(5, n) entries, one for each of the first rows.      *)
(***************************************************************************)
C8_PreviewShowsFirstRows ==
    (pc \in {"close", "done"} /\ ViewerRan /\ "read" \notin failed) =>
       /\ \E i \in 1..Len(ui) : ui[i].k = "dataframe" /\ ui[i].n = Len(Target.rows)
       /\ CountKind({"json", "row_error"}) = Min(5, Len(Target.rows))

(***************************************************************************)
(* C9: every run that obtains a session has closed it when the run ends,   *)
(* on every exit path of main.                                             *)
(***************************************************************************)
C9_SessionClosedAtRunEnd ==
    (RunEnded /\ session # "none") => session = "closed"

(***************************************************************************)
(* C10: the viewer reads the table only in a run whose batch is not empty  *)
(* and whose checkbox is checked, and only after the ingestion loop of     *)
(* that run went over the whole batch.                                     *)
(***************************************************************************)
C10_ViewerOnlyAfterIngestion ==
    ViewerRan =>
       /\ uploaded_files # <<>>
       /\ checkbox
       /\ Processed = Len(uploaded_files)

C10_Witness ==
    /\ pc = "close"
    /\ checkbox
    /\ Len(uploaded_files) = 2
    /\ Processed = 2
    /\ CountKind({"dataframe"}) = 1

====
